---- MODULE Spec2Model ----
(***************************************************************************)
(* VaultAI: the vault synchronisation and retrieval-augmented query engine. *)
(*                                                                         *)
(* RAGService (services/RAGService.ts, the File Search implementation),    *)
(* the two settings-tab handlers that drive it, syncVaultWithProgress and  *)
(* deleteRAGStore, and the chat view's handleMessage and toggleRAGMode     *)
(* (main.ts), as a state machine.  The handlers are                        *)
(* async functions: a handler runs without interruption up to its next     *)
(* await of real I/O (a remote call, a vault read, saveData, the poll      *)
(* timer) and any other handler, click or vault change may come in         *)
(* between two such awaits.  One action is one such run-to-await segment.  *)
(* Segments that the code runs back to back (an async call that returns    *)
(* without real I/O) are chained through the internal pcs of InternalPcs:  *)
(* while a handler is at one of them nothing else is scheduled.            *)
(*                                                                         *)
(* Left out: FileMetadata.lastModified and uploadedAt (written, never      *)
(* read by the engine), Notices and DOM updates.                           *)
(***************************************************************************)
EXTENDS Integers, Sequences, FiniteSets, TLC

\* ----------------------------------------------------------------- bounds
NumDocs == 2        \* documents (paths) of the vault
BatchDocs == 5      \* documents of the vault, specification SpecBatch
ChatDocs == 1       \* documents of the vault, specification SpecChat
NumContents == 2    \* distinct texts a document can hold
NumHandlers == 2    \* settings-tab handler invocations that can overlap
MaxStores == 2      \* remote File Search stores ever created
MaxStall == 1       \* polls the remote lets an operation stay unfinished
NumQueries == 1     \* handleMessage calls that can overlap
MaxChunks == 2      \* grounding chunks of one answer
NumOverlapping == 2 \* handleMessage calls that can overlap, specification SpecCooldown
MaxPreviewChunks == 4 \* grounding chunks of one answer, specification SpecPreview
MaxPreviewText == 2  \* tokens of a chunk's text, specification SpecPreview
MaxText == 1        \* tokens of the text of one grounding chunk

\* ------------------------------------------------------ program constants
maxAttempts == 60   \* RAGService.uploadFile: const maxAttempts = 60
API_COOLDOWN == 1000  \* chat view: private readonly API_COOLDOWN = 1000 (ms)
previewLength == 80   \* formatCitations: substring(0, 80)
previewLimit == 3     \* formatCitations: slice(0, 3)

Null == 0                    \* null store name (store names are 1, 2, ...)
Undefined == "undefined"     \* folderPath left out
NoHash == <<>>
Absent == 0                  \* no document at this path
\* Map.get of a path never uploaded
NoRec == [present |-> FALSE, hash |-> NoHash, uploaded |-> FALSE]
Contents == 1..NumContents
Handlers == 1..NumHandlers
Queries == 1..NumQueries
RootFolder == "/"
FolderA == "A"
Folders == {RootFolder, FolderA}

\* ------------------------------------------------------------------ state
VARIABLES
    vault,                \* document store: path -> text, or Absent
    ragService,           \* plugin.ragService is set
    fileSearchStoreName,  \* RAGService.fileSearchStoreName: the active handle
    syncedFiles,          \* RAGService.syncedFiles: path -> FileMetadata or NoRec
    syncProgress,         \* RAGService.syncProgress
    settings,             \* plugin.settings (the RAG part), saved with saveData
    remoteStores,         \* the remote: File Search stores that exist
    storesCreated,        \* the remote: stores created so far (names are fresh)
    remoteDocs,           \* the remote: store -> documents imported, <<path, digest of
                          \* the content sent>>
    hd,                   \* per handler invocation: position and locals
    lastRun,              \* history: the latest syncVault that returned, [valid, failed],
                          \* and whether the plugin was loaded anew since
    history,              \* whether this specification records lastRun
    chat                  \* the chat view: ragMode, the cooldown, handleMessage calls

ragVars == <<vault, ragService, fileSearchStoreName, syncedFiles, syncProgress,
             settings, remoteStores, storesCreated, remoteDocs, hd, lastRun, history>>

\* --------------------------------------------------------------- helpers
Docs == DOMAIN vault

\* file.path = folder + "/" + name; odd documents live in folder A, even ones
\* at the top of the vault.
PathDir(d) == IF d % 2 = 1 THEN FolderA ELSE "B"

\* file.name
FileName(d) == d

\* String.prototype.startsWith on file.path
startsWith(d, folderPath) == PathDir(d) = folderPath

RECURSIVE SeqOf(_)
SeqOf(S) ==
    IF S = {} THEN <<>>
    ELSE LET m == CHOOSE x \in S : \A y \in S : x <= y
         IN  <<m>> \o SeqOf(S \ {m})

Range(s) == {s[k] : k \in 1..Len(s)}

\* calculateHash: SHA-256 over the raw text, hex encoded.  Modelled as an
\* injective tagging of the text: distinct texts have distinct digests.
calculateHash(content) == <<"sha256", content>>

\* vault.getMarkdownFiles(): the existing documents, in a fixed order
getMarkdownFiles(v) == SeqOf({d \in DOMAIN v : v[d] # Absent})

\* getVaultFiles(folderPath)
getVaultFiles(v, folderPath) ==
    LET allFiles == getMarkdownFiles(v)
    IN  IF folderPath = Undefined \/ folderPath = RootFolder
        THEN allFiles
        ELSE SelectSeq(allFiles, LAMBDA d : startsWith(d, folderPath))

\* getFilesToSync, line 324, without the comparison: every file needs sync
needsSync_always(metadata, currentHash) == TRUE

\* getFilesToSync, line 324, without the hash comparison: only new files
needsSync_newOnly(metadata, currentHash) == ~metadata.present

\* getFilesToSync, line 324: the file needs sync if it was not uploaded before
\* or its content hash differs from the recorded one
needsSync(metadata, currentHash) ==
    ~metadata.present \/ metadata.hash # currentHash

\* uploadFile, syncedFiles.set, recording no hash
uploadedRecord_noHash(hash) == [present |-> TRUE, hash |-> NoHash, uploaded |-> TRUE]

\* uploadFile, syncedFiles.set: the FileMetadata written after a finished upload
uploadedRecord(hash) == [present |-> TRUE, hash |-> hash, uploaded |-> TRUE]

\* getSyncStats counting every document as tracked
getSyncStats_allDocuments(synced) ==
    LET total == Cardinality(DOMAIN synced)
        syncedCount == Cardinality({d \in DOMAIN synced :
                                      synced[d].present /\ synced[d].uploaded})
    IN  [total |-> total, synced |-> syncedCount, pending |-> total - syncedCount]

\* getSyncStats (RAGService 494-502)
getSyncStats(synced) ==
    LET total == Cardinality({d \in DOMAIN synced : synced[d].present})
        syncedCount == Cardinality({d \in DOMAIN synced :
                                      synced[d].present /\ synced[d].uploaded})
    IN  [total |-> total, synced |-> syncedCount, pending |-> total - syncedCount]

\* getSyncedFilesMetadata that returns an empty object
getSyncedFilesMetadata_empty(synced) == {}

\* getSyncedFilesMetadata (RAGService 514-516): Object.fromEntries of the Map,
\* an object with one property (path, record) per entry of the Map
getSyncedFilesMetadata(synced) ==
    {<<d, synced[d]>> : d \in {e \in DOMAIN synced : synced[e].present}}

\* loadSyncedFilesMetadata (RAGService 507-509): new Map(Object.entries(..)),
\* a Map with one entry per property of the object
loadSyncedFilesMetadata(metadata) ==
    [d \in Docs |->
        IF \E entry \in metadata : entry[1] = d
        THEN (CHOOSE entry \in metadata : entry[1] = d)[2]
        ELSE NoRec]

\* ------------------------------------------------------- handler records
NoResult == [kind |-> "none"]
NoCallback == [current |-> 0, processed |-> 0]
NoRun == [valid |-> FALSE, failed |-> {}, restarted |-> FALSE]

\* A handler that is not running.  `failed` (the items of this run whose upload
\* failed), `prev` (lastRun as the run found it) and `shown` (what the progress
\* callback was last called with) are history, not program state; so is
\* `cancel` (the caller of this run has asked for it to stop).
IdleHandler ==
    [pc |-> "idle", folder |-> Undefined, vaultFiles |-> <<>>, filesToSync |-> <<>>,
     i |-> 0, successCount |-> 0, failedCount |-> 0, skippedCount |-> 0,
     content |-> Absent, hash |-> NoHash, opStore |-> Null, opDone |-> FALSE, attempts |-> 0,
     storeName |-> Null, failed |-> {}, prev |-> NoRun,
     shown |-> NoCallback, result |-> NoResult, cancel |-> FALSE]

\* pcs at which the handler goes on at once, with no real I/O awaited
InternalPcs == {"syncVault", "afterScan", "loop", "completed", "syncError", "deleteError"}
\* pcs of a handler inside RAGService.syncVault
SyncVaultPcs == {"scan", "afterScan", "loop", "lazyCreate", "read", "upload", "poll", "completed"}
\* pcs of a handler inside RAGService.uploadFile
UploadPcs == {"lazyCreate", "read", "upload", "poll"}

Quiet == \A g \in Handlers : hd[g].pc \notin InternalPcs

InitialProgress == [total |-> 0, processed |-> 0, current |-> 0, status |-> "idle"]

\* A handleMessage call that is not running; `called` (the backend the call
\* reached), `calls` (how many backend calls it made), `ragModeAtCall`,
\* `outcome` (the error message shown, or "answered"), `botAnswer` (a bot
\* message was added), `gm` (the grounding metadata of the answer), `citations`
\* (what formatCitations made of it) and `error` (what the catch caught) stay
\* from the latest call.
IdleQuery ==
    [pc |-> "idle", context |-> FALSE, store |-> Null,
     called |-> "none", ragModeAtCall |-> FALSE, outcome |-> "none",
     calls |-> 0, botAnswer |-> FALSE,
     gm |-> [shape |-> "null", chunks |-> <<>>],
     citations |-> [kind |-> "empty", n |-> 0, sources |-> <<>>],
     error |-> [isError |-> FALSE, marks |-> {}]]

\* The chat view as constructed: ragMode = false, lastApiCall = 0.  `elapsed`
\* is Date.now() - lastApiCall, capped at API_COOLDOWN.
InitialChat ==
    [ragMode |-> FALSE, elapsed |-> API_COOLDOWN, hm |-> [q \in Queries |-> IdleQuery]]

DEFAULT_SETTINGS(docs) ==
    [ragEnabled |-> FALSE, ragFolderPath |-> RootFolder, ragStoreName |-> Null,
     ragSyncedFiles |-> {}]

\* ---------------------------------------------------------------- Init
\* The plugin loaded with default settings over a vault of documents `docs`
\* that all hold text 1; RAG is not enabled yet, so there is no RAGService.
InitWith(docs, recording) ==
    /\ history = recording
    /\ vault = [d \in docs |-> 1]
    /\ ragService = FALSE
    /\ fileSearchStoreName = Null
    /\ syncedFiles = [d \in docs |-> NoRec]
    /\ syncProgress = InitialProgress
    /\ settings = DEFAULT_SETTINGS(docs)
    /\ remoteStores = {}
    /\ storesCreated = 0
    /\ remoteDocs = [s \in 1..MaxStores |-> {}]
    /\ hd = [h \in Handlers |-> IdleHandler]
    /\ lastRun = NoRun
    /\ chat = InitialChat

\* ------------------------------------------------- settings tab: Enable RAG
\* "Enable RAG" toggle onChange (main.ts 4774-4786) with initializeRAGService
\* (main.ts 2225-2248): a new RAGService that takes the store name and the
\* records from the settings.  The Gemini service exists (an API key is set).
\* The toggle is used only while no handler is in flight.
AllIdle == \A g \in Handlers : hd[g].pc = "idle"

ToggleEnableRAG(value) ==
    /\ AllIdle
    /\ value # settings.ragEnabled
    /\ settings' = [settings EXCEPT !.ragEnabled = value]
    /\ IF value
       THEN /\ ragService' = TRUE
            /\ fileSearchStoreName' = settings.ragStoreName
            /\ syncedFiles' = loadSyncedFilesMetadata(settings.ragSyncedFiles)
            /\ syncProgress' = InitialProgress
       ELSE UNCHANGED <<ragService, fileSearchStoreName, syncedFiles, syncProgress>>
    /\ lastRun' = NoRun
    /\ UNCHANGED <<vault, remoteStores, storesCreated, remoteDocs, hd, history, chat>>

\* "Vault Folder Path" text onChange (main.ts 4799-4802)
SetFolderPath(value) ==
    /\ Quiet
    /\ settings.ragEnabled
    /\ value # settings.ragFolderPath
    /\ settings' = [settings EXCEPT !.ragFolderPath = value]
    /\ lastRun' = NoRun
    /\ UNCHANGED <<vault, ragService, fileSearchStoreName, syncedFiles, syncProgress,
                   remoteStores, storesCreated, remoteDocs, hd, history, chat>>

\* ------------------------------------------------------- the document store
\* The user edits, creates or deletes a note (the core only reads the vault).
EditDoc(d, c) ==
    /\ Quiet
    /\ vault[d] # Absent /\ vault[d] # c
    /\ vault' = [vault EXCEPT ![d] = c]
    /\ UNCHANGED <<ragService, fileSearchStoreName, syncedFiles, syncProgress, settings,
                   remoteStores, storesCreated, remoteDocs, hd, lastRun, history, chat>>

CreateDoc(d, c) ==
    /\ Quiet
    /\ vault[d] = Absent
    /\ vault' = [vault EXCEPT ![d] = c]
    /\ UNCHANGED <<ragService, fileSearchStoreName, syncedFiles, syncProgress, settings,
                   remoteStores, storesCreated, remoteDocs, hd, lastRun, history, chat>>

DeleteDoc(d) ==
    /\ Quiet
    /\ vault[d] # Absent
    /\ vault' = [vault EXCEPT ![d] = Absent]
    /\ UNCHANGED <<ragService, fileSearchStoreName, syncedFiles, syncProgress, settings,
                   remoteStores, storesCreated, remoteDocs, hd, lastRun, history, chat>>

\* ------------------------------------------- syncVaultWithProgress, start
\* "Sync Now" onClick -> syncVaultWithProgress (main.ts 4973-4989).  With no
\* RAGService: a notice and return.  With no store name: initializeStore, which
\* finds fileSearchStoreName unset and awaits fileSearchStores.create.
ClickSync(h) ==
    /\ Quiet
    /\ hd[h].pc = "idle"
    /\ settings.ragEnabled
    /\ hd' = [hd EXCEPT ![h] =
                IF ~ragService
                THEN IdleHandler
                ELSE [IdleHandler EXCEPT
                        !.pc = IF fileSearchStoreName = Null THEN "create" ELSE "syncVault"]]
    /\ UNCHANGED <<vault, ragService, fileSearchStoreName, syncedFiles, syncProgress,
                   settings, remoteStores, storesCreated, remoteDocs, lastRun, history, chat>>

\* initializeStore (RAGService 233-240): the remote creates a store with a fresh
\* name, which becomes the active handle; syncVaultWithProgress then copies
\* it into the settings and awaits saveSettings (main.ts 4987-4988).
CreateStoreOk(h) ==
    /\ Quiet
    /\ hd[h].pc = "create"
    /\ storesCreated < MaxStores
    /\ storesCreated' = storesCreated + 1
    /\ remoteStores' = remoteStores \cup {storesCreated + 1}
    /\ fileSearchStoreName' = storesCreated + 1
    /\ settings' = [settings EXCEPT !.ragStoreName = storesCreated + 1]
    /\ hd' = [hd EXCEPT ![h].pc = "saveStore"]
    /\ UNCHANGED <<vault, ragService, syncedFiles, syncProgress, remoteDocs, lastRun, history, chat>>

\* initializeStore's catch rethrows "Failed to initialize RAG store"; the catch
\* of syncVaultWithProgress (main.ts 5012-5016) shows it and returns.
CreateStoreFail(h) ==
    /\ Quiet
    /\ hd[h].pc = "create"
    /\ hd' = [hd EXCEPT ![h].pc = "syncError"]
    /\ UNCHANGED <<vault, ragService, fileSearchStoreName, syncedFiles, syncProgress,
                   settings, remoteStores, storesCreated, remoteDocs, lastRun, history, chat>>

\* the catch of syncVaultWithProgress (main.ts 5012-5016): the notice, return
SyncError(h) ==
    /\ hd[h].pc = "syncError"
    /\ hd' = [hd EXCEPT ![h] = IdleHandler]
    /\ UNCHANGED <<vault, ragService, fileSearchStoreName, syncedFiles, syncProgress,
                   settings, remoteStores, storesCreated, remoteDocs, lastRun, history, chat>>

\* saveSettings resolved (main.ts 4988); syncVault is called next
StoreSaved(h) ==
    /\ Quiet
    /\ hd[h].pc = "saveStore"
    /\ hd' = [hd EXCEPT ![h].pc = "syncVault"]
    /\ UNCHANGED <<vault, ragService, fileSearchStoreName, syncedFiles, syncProgress,
                   settings, remoteStores, storesCreated, remoteDocs, lastRun, history, chat>>

\* --------------------------------------------------------------- onload
\* The application is closed with no handler in flight and opened again: onload
\* (main.ts 2105-2109) loads the saved settings, and with RAG enabled
\* initializeGeminiService (2208-2222) calls initializeRAGService (2225-2248),
\* which makes a new RAGService and gives it the store name and the records of
\* the settings.  Every change of the settings was saved when it was made.
Restart ==
    /\ AllIdle
    /\ \A q \in Queries : chat.hm[q].pc = "idle"
    /\ IF settings.ragEnabled
       THEN /\ ragService' = TRUE
            /\ fileSearchStoreName' = settings.ragStoreName
            /\ syncedFiles' = loadSyncedFilesMetadata(settings.ragSyncedFiles)
       ELSE /\ ragService' = FALSE
            /\ fileSearchStoreName' = Null
            /\ syncedFiles' = [d \in Docs |-> NoRec]
    /\ syncProgress' = InitialProgress
    /\ hd' = [h \in Handlers |-> IdleHandler]
    /\ chat' = InitialChat
    /\ lastRun' = IF history THEN [lastRun EXCEPT !.restarted = TRUE] ELSE lastRun
    /\ UNCHANGED <<vault, settings, remoteStores, storesCreated, remoteDocs, history>>

\* ------------------------------------------------------ RAGService.syncVault
\* syncVault entry (RAGService 399-400) and getFilesToSync entry (312-314):
\* status = "syncing", then the list of files in scope is taken.
SyncVaultStart(h) ==
    /\ hd[h].pc = "syncVault"
    /\ LET folderPath == IF settings.ragFolderPath = RootFolder
                         THEN Undefined ELSE settings.ragFolderPath
           vaultFiles == getVaultFiles(vault, folderPath)
       IN  hd' = [hd EXCEPT ![h] = [@ EXCEPT
                    !.pc = IF vaultFiles = <<>> THEN "afterScan" ELSE "scan",
                    !.folder = folderPath,
                    !.vaultFiles = vaultFiles,
                    !.filesToSync = <<>>,
                    !.i = 1,
                    !.prev = lastRun]]
    /\ syncProgress' = [syncProgress EXCEPT !.status = "syncing"]
    /\ UNCHANGED <<vault, ragService, fileSearchStoreName, syncedFiles, settings,
                   remoteStores, storesCreated, remoteDocs, lastRun, history, chat>>

\* getFilesToSync, one turn of the loop (RAGService 316-327): read the file,
\* hash it, compare with the record
ScanRead(h) ==
    /\ Quiet
    /\ hd[h].pc = "scan"
    /\ LET file == hd[h].vaultFiles[hd[h].i]
           currentHash == calculateHash(vault[file])
           metadata == syncedFiles[file]
       IN  /\ vault[file] # Absent
           /\ hd' = [hd EXCEPT ![h] = [@ EXCEPT
                        !.filesToSync = IF needsSync(metadata, currentHash)
                                        THEN Append(@, file) ELSE @,
                        !.i = @ + 1,
                        !.pc = IF hd[h].i = Len(hd[h].vaultFiles)
                               THEN "afterScan" ELSE "scan"]]
    /\ UNCHANGED <<vault, ragService, fileSearchStoreName, syncedFiles, syncProgress,
                   settings, remoteStores, storesCreated, remoteDocs, lastRun, history, chat>>

\* vault.read rejects (the file was deleted after the list was taken): the
\* error leaves getFilesToSync and syncVault and reaches the catch of
\* syncVaultWithProgress (main.ts 5012-5016).  syncProgress is not touched.
ScanReadFail(h) ==
    /\ Quiet
    /\ hd[h].pc = "scan"
    /\ vault[hd[h].vaultFiles[hd[h].i]] = Absent
    /\ hd' = [hd EXCEPT ![h].pc = "syncError"]
    /\ lastRun' = NoRun
    /\ UNCHANGED <<vault, ragService, fileSearchStoreName, syncedFiles, syncProgress,
                   settings, remoteStores, storesCreated, remoteDocs, history, chat>>

\* history: a syncVault returned after the uploads of `failed` failed
Recorded(failed) == IF history THEN [valid |-> TRUE, failed |-> failed, restarted |-> FALSE] ELSE NoRun

\* syncVaultWithProgress after syncVault returned (main.ts 5001-5003): the
\* records are copied into the settings and saveSettings is awaited
SyncSummary(h, success, failed, skipped) ==
    [kind |-> "synced", success |-> success, failed |-> failed, skipped |-> skipped,
     delta |-> Len(hd[h].filesToSync),
     inScope |-> Len(getVaultFiles(vault, hd[h].folder)),
     prev |-> hd[h].prev]

\* syncVault after getFilesToSync (RAGService 402-413): total, processed = 0,
\* skippedCount from a second getVaultFiles; an empty delta returns at once
AfterScan(h) ==
    /\ hd[h].pc = "afterScan"
    /\ LET filesToSync == hd[h].filesToSync
           skippedCount == Len(getVaultFiles(vault, hd[h].folder)) - Len(filesToSync)
       IN  IF Len(filesToSync) = 0
           THEN /\ syncProgress' = [syncProgress EXCEPT
                        !.total = 0, !.processed = 0, !.status = "completed"]
                /\ settings' = [settings EXCEPT
                        !.ragSyncedFiles = getSyncedFilesMetadata(syncedFiles)]
                /\ hd' = [hd EXCEPT ![h] = [@ EXCEPT
                        !.pc = "saveMetadata", !.i = 0, !.vaultFiles = <<>>,
                        !.skippedCount = skippedCount,
                        !.result = SyncSummary(h, 0, 0, skippedCount)]]
                /\ lastRun' = Recorded({})
           ELSE /\ syncProgress' = [syncProgress EXCEPT
                        !.total = Len(filesToSync), !.processed = 0]
                /\ hd' = [hd EXCEPT ![h] = [@ EXCEPT
                        !.pc = "loop", !.i = 1, !.vaultFiles = <<>>,
                        !.skippedCount = skippedCount]]
                /\ UNCHANGED <<settings, lastRun>>
    /\ UNCHANGED <<vault, ragService, fileSearchStoreName, syncedFiles,
                   remoteStores, storesCreated, remoteDocs, history, chat>>

\* The caller of a running syncVault asks for the run to stop.  syncVault takes
\* a folder path and a progress callback (RAGService 395-398) and its loop reads
\* nothing but the list of files (415-431): there is no field, parameter or
\* signal that the request could set, so it changes nothing that a run reads.
RequestCancel(h) ==
    /\ Quiet
    /\ hd[h].pc \in SyncVaultPcs
    /\ ~hd[h].cancel
    /\ hd' = [hd EXCEPT ![h].cancel = TRUE]
    /\ UNCHANGED <<vault, ragService, fileSearchStoreName, syncedFiles, syncProgress,
                   settings, remoteStores, storesCreated, remoteDocs, lastRun, history, chat>>

\* the top of the upload loop (RAGService 415-422) and uploadFile up to its
\* first await (336-341): current is set, the progress callback is called, and
\* uploadFile either awaits initializeStore (no store name) or vault.read
LoopTop(h) ==
    /\ hd[h].pc = "loop"
    /\ LET file == hd[h].filesToSync[hd[h].i]
           progress == [syncProgress EXCEPT !.current = FileName(file)]
       IN  /\ syncProgress' = progress
           /\ hd' = [hd EXCEPT ![h] = [@ EXCEPT
                        !.shown = [current |-> progress.current,
                                   processed |-> progress.processed],
                        !.pc = IF fileSearchStoreName = Null THEN "lazyCreate" ELSE "read"]]
    /\ UNCHANGED <<vault, ragService, fileSearchStoreName, syncedFiles, settings,
                   remoteStores, storesCreated, remoteDocs, lastRun, history, chat>>

\* syncVault after uploadFile returned `success` (RAGService 424-430): the
\* counters, processed++, and on to the next item or to the end of the loop
nextProcessed(processed) == processed + 1

ItemDone(h, success) ==
    /\ hd' = [hd EXCEPT ![h] = [@ EXCEPT
                !.successCount = IF success THEN @ + 1 ELSE @,
                !.failedCount = IF success THEN @ ELSE @ + 1,
                !.failed = IF success \/ ~history THEN @
                           ELSE @ \cup {hd[h].filesToSync[hd[h].i]},
                !.content = Absent, !.hash = NoHash,
                !.opStore = Null, !.opDone = FALSE, !.attempts = 0,
                !.pc = IF hd[h].i = Len(hd[h].filesToSync) THEN "completed" ELSE "loop",
                !.i = @ + 1]]
    /\ syncProgress' = [syncProgress EXCEPT !.processed = nextProcessed(@)]

\* ----------------------------------------------------- RAGService.uploadFile
\* a catch that records the file as uploaded
recordsAfterCatch_marked(synced, file, hash) ==
    [synced EXCEPT ![file] = uploadedRecord(hash)]

\* the catch of uploadFile (RAGService 386-389): the error is logged and false
\* is returned; the records stay as they are
recordsAfterCatch(synced, file, hash) == synced

\* uploadFile threw and its catch returned false
UploadFailed(h) ==
    /\ syncedFiles' = recordsAfterCatch(syncedFiles, hd[h].filesToSync[hd[h].i],
                                        hd[h].hash)
    /\ ItemDone(h, FALSE)

\* uploadFile finds no store name and awaits initializeStore (RAGService
\* 337-339, 233-240): the created store becomes the active handle.  Nothing
\* copies it into the settings here.
LazyCreateOk(h) ==
    /\ Quiet
    /\ hd[h].pc = "lazyCreate"
    /\ storesCreated < MaxStores
    /\ storesCreated' = storesCreated + 1
    /\ remoteStores' = remoteStores \cup {storesCreated + 1}
    /\ fileSearchStoreName' = storesCreated + 1
    /\ hd' = [hd EXCEPT ![h].pc = "read"]
    /\ UNCHANGED <<vault, ragService, syncedFiles, syncProgress, settings,
                   remoteDocs, lastRun, history, chat>>

\* the create fails: initializeStore throws, uploadFile's catch returns false
LazyCreateFail(h) ==
    /\ Quiet
    /\ hd[h].pc = "lazyCreate"
    /\ UploadFailed(h)
    /\ UNCHANGED <<vault, ragService, fileSearchStoreName, settings,
                   remoteStores, storesCreated, remoteDocs, lastRun, history, chat>>

\* vault.read and calculateHash resolved (RAGService 341-360): the upload
\* request is sent, naming the store that is active now
ReadOk(h) ==
    /\ Quiet
    /\ hd[h].pc = "read"
    /\ LET file == hd[h].filesToSync[hd[h].i]
       IN  /\ vault[file] # Absent
           /\ hd' = [hd EXCEPT ![h] = [@ EXCEPT
                        !.pc = "upload",
                        !.content = vault[file],
                        !.hash = calculateHash(vault[file]),
                        !.opStore = fileSearchStoreName]]
    /\ UNCHANGED <<vault, ragService, fileSearchStoreName, syncedFiles, syncProgress,
                   settings, remoteStores, storesCreated, remoteDocs, lastRun, history, chat>>

\* vault.read rejects: uploadFile's catch returns false
ReadFail(h) ==
    /\ Quiet
    /\ hd[h].pc = "read"
    /\ vault[hd[h].filesToSync[hd[h].i]] = Absent
    /\ UploadFailed(h)
    /\ UNCHANGED <<vault, ragService, fileSearchStoreName, settings,
                   remoteStores, storesCreated, remoteDocs, lastRun, history, chat>>

\* uploadToFileSearchStore resolved with an operation that is not done yet:
\* the poll loop starts with its 5 s sleep (RAGService 363-367)
UploadAccepted(h) ==
    /\ Quiet
    /\ hd[h].pc = "upload"
    /\ hd[h].opStore \in remoteStores
    /\ hd' = [hd EXCEPT ![h] = [@ EXCEPT !.pc = "poll", !.opDone = FALSE, !.attempts = 0]]
    /\ UNCHANGED <<vault, ragService, fileSearchStoreName, syncedFiles, syncProgress,
                   settings, remoteStores, storesCreated, remoteDocs, lastRun, history, chat>>

\* a record that takes the hash of the file as it is when the record is written
recordedHash_reread(hash, current) == calculateHash(current)

\* `hash: hash` of the record (RAGService 379): the hash computed at line 342
\* from the content that was read then; the file is not read again
recordedHash(hash, current) == hash

\* the operation is done (seen on the upload's own response or on a poll):
\* the record is written (RAGService 376-385) and uploadFile returns true
UploadFinished(h) ==
    /\ syncedFiles' = [syncedFiles EXCEPT
            ![hd[h].filesToSync[hd[h].i]] =
                uploadedRecord(recordedHash(hd[h].hash, vault[hd[h].filesToSync[hd[h].i]]))]
    /\ ItemDone(h, TRUE)

\* uploadToFileSearchStore resolved with an operation that is already done
UploadDone(h) ==
    /\ Quiet
    /\ hd[h].pc = "upload"
    /\ hd[h].opStore \in remoteStores
    /\ remoteDocs' = [remoteDocs EXCEPT ![hd[h].opStore] =
                        @ \cup {<<hd[h].filesToSync[hd[h].i], calculateHash(hd[h].content)>>}]
    /\ UploadFinished(h)
    /\ UNCHANGED <<vault, ragService, fileSearchStoreName, settings,
                   remoteStores, storesCreated, lastRun, history, chat>>

\* the upload is rejected (no such store, a size limit, the network):
\* uploadFile's catch returns false
UploadRejected(h) ==
    /\ Quiet
    /\ hd[h].pc = "upload"
    /\ UploadFailed(h)
    /\ UNCHANGED <<vault, ragService, fileSearchStoreName, settings,
                   remoteStores, storesCreated, remoteDocs, lastRun, history, chat>>

\* the remote finishes the import of an accepted upload into its store
RemoteImport(h) ==
    /\ Quiet
    /\ hd[h].pc = "poll"
    /\ ~hd[h].opDone
    /\ hd[h].opStore \in remoteStores
    /\ remoteDocs' = [remoteDocs EXCEPT ![hd[h].opStore] =
                        @ \cup {<<hd[h].filesToSync[hd[h].i], calculateHash(hd[h].content)>>}]
    /\ hd' = [hd EXCEPT ![h].opDone = TRUE]
    /\ UNCHANGED <<vault, ragService, fileSearchStoreName, syncedFiles, syncProgress,
                   settings, remoteStores, storesCreated, lastRun, history, chat>>

\* one turn of the poll loop (RAGService 366-374): operations.get after the
\* sleep.  `stall` is how many times the remote may answer "not done".
PollDone(h) ==
    /\ Quiet
    /\ hd[h].pc = "poll"
    /\ hd[h].opDone
    /\ UploadFinished(h)
    /\ UNCHANGED <<vault, ragService, fileSearchStoreName, settings,
                   remoteStores, storesCreated, remoteDocs, lastRun, history, chat>>

\* the poll loop without its bound on attempts
pollAgain_unbounded(done, attempts) == ~done

\* the condition of the poll loop (RAGService 366)
pollAgain(done, attempts) == ~done /\ attempts < maxAttempts

PollNotDone(h, stall) ==
    /\ Quiet
    /\ hd[h].pc = "poll"
    /\ ~hd[h].opDone
    /\ hd[h].attempts < stall
    /\ IF pollAgain(FALSE, hd[h].attempts + 1)
       THEN /\ hd' = [hd EXCEPT ![h].attempts = @ + 1]
            /\ UNCHANGED <<syncProgress, syncedFiles>>
       ELSE UploadFailed(h)         \* "Upload timeout", caught: false
    /\ UNCHANGED <<vault, ragService, fileSearchStoreName, settings,
                   remoteStores, storesCreated, remoteDocs, lastRun, history, chat>>

\* operations.get rejects: uploadFile's catch returns false
PollFail(h) ==
    /\ Quiet
    /\ hd[h].pc = "poll"
    /\ UploadFailed(h)
    /\ UNCHANGED <<vault, ragService, fileSearchStoreName, settings,
                   remoteStores, storesCreated, remoteDocs, lastRun, history, chat>>

\* the end of syncVault (RAGService 433-444) and syncVaultWithProgress after
\* it (main.ts 5001-5003)
SyncCompleted(h) ==
    /\ hd[h].pc = "completed"
    /\ LET progress == [syncProgress EXCEPT !.status = "completed", !.current = 0]
       IN  /\ syncProgress' = progress
           /\ hd' = [hd EXCEPT ![h] = [@ EXCEPT
                        !.pc = "saveMetadata",
                        !.shown = [current |-> progress.current,
                                   processed |-> progress.processed],
                        !.result = SyncSummary(h, hd[h].successCount,
                                               hd[h].failedCount, hd[h].skippedCount)]]
    /\ settings' = [settings EXCEPT !.ragSyncedFiles = getSyncedFilesMetadata(syncedFiles)]
    /\ lastRun' = Recorded(hd[h].failed)
    /\ UNCHANGED <<vault, ragService, fileSearchStoreName, syncedFiles,
                   remoteStores, storesCreated, remoteDocs, history, chat>>

\* saveSettings resolved (main.ts 5003-5011): the notice, display(), return
MetadataSaved(h) ==
    /\ Quiet
    /\ hd[h].pc = "saveMetadata"
    /\ hd' = [hd EXCEPT ![h] = IdleHandler]
    /\ UNCHANGED <<vault, ragService, fileSearchStoreName, syncedFiles, syncProgress,
                   settings, remoteStores, storesCreated, remoteDocs, lastRun, history, chat>>

\* ---------------------------------------------------------- deleteRAGStore
\* "Delete Store" onClick -> deleteRAGStore (main.ts 5019-5027): with a store
\* name, deleteStore(storeName) awaits fileSearchStores.delete
ClickDelete(h) ==
    /\ Quiet
    /\ hd[h].pc = "idle"
    /\ settings.ragEnabled
    /\ hd' = [hd EXCEPT ![h] =
                IF ~ragService \/ fileSearchStoreName = Null
                THEN IdleHandler
                ELSE [IdleHandler EXCEPT
                        !.pc = "delete", !.storeName = fileSearchStoreName]]
    /\ UNCHANGED <<vault, ragService, fileSearchStoreName, syncedFiles, syncProgress,
                   settings, remoteStores, storesCreated, remoteDocs, lastRun, history, chat>>

\* deleteStore, line 273, never taking the branch
clearsOnDelete_never(active, storeName) == FALSE

\* deleteStore, line 273: the handle and the records go only if the deleted
\* store is still the active one
clearsOnDelete(active, storeName) == active = storeName

\* the remote deleted the store (RAGService 268-276); deleteRAGStore then
\* clears the settings and awaits saveSettings (main.ts 5029-5032)
DeleteStoreOk(h) ==
    /\ Quiet
    /\ hd[h].pc = "delete"
    /\ hd[h].storeName \in remoteStores
    /\ remoteStores' = remoteStores \ {hd[h].storeName}
    /\ remoteDocs' = [remoteDocs EXCEPT ![hd[h].storeName] = {}]
    /\ IF clearsOnDelete(fileSearchStoreName, hd[h].storeName)
       THEN /\ fileSearchStoreName' = Null
            /\ syncedFiles' = [d \in Docs |-> NoRec]
       ELSE UNCHANGED <<fileSearchStoreName, syncedFiles>>
    /\ settings' = [settings EXCEPT
            !.ragStoreName = Null, !.ragSyncedFiles = {}]
    /\ hd' = [hd EXCEPT ![h] = [@ EXCEPT !.pc = "saveDeleted",
                                          !.result = [kind |-> "deleted"]]]
    /\ lastRun' = NoRun
    /\ UNCHANGED <<vault, ragService, syncProgress, storesCreated, history, chat>>

\* the remote delete fails: deleteStore rethrows, deleteRAGStore's catch
\* (main.ts 5036-5039) shows the error; nothing is cleared
DeleteStoreFail(h) ==
    /\ Quiet
    /\ hd[h].pc = "delete"
    /\ hd' = [hd EXCEPT ![h].pc = "deleteError"]
    /\ UNCHANGED <<vault, ragService, fileSearchStoreName, syncedFiles, syncProgress,
                   settings, remoteStores, storesCreated, remoteDocs, lastRun, history, chat>>

\* the catch of deleteRAGStore (main.ts 5036-5039): the notice, return
DeleteError(h) ==
    /\ hd[h].pc = "deleteError"
    /\ hd' = [hd EXCEPT ![h] = IdleHandler]
    /\ UNCHANGED <<vault, ragService, fileSearchStoreName, syncedFiles, syncProgress,
                   settings, remoteStores, storesCreated, remoteDocs, lastRun, history, chat>>

\* saveSettings resolved (main.ts 5032-5035)
DeleteSaved(h) ==
    /\ Quiet
    /\ hd[h].pc = "saveDeleted"
    /\ hd' = [hd EXCEPT ![h] = IdleHandler]
    /\ UNCHANGED <<vault, ragService, fileSearchStoreName, syncedFiles, syncProgress,
                   settings, remoteStores, storesCreated, remoteDocs, lastRun, history, chat>>

\* --------------------------------------------------------- formatCitations
\* The text of a grounding chunk is a sequence of tokens: a plain word, an
\* Obsidian [[link]] or a #tag.  (One token stands for one character of the
\* 80 that a preview keeps.)
Word == "word"
Link == "[[note]]"
Tag == "#tag"
Tokens == {Word, Link, Tag}

RECURSIVE SeqsUpTo(_, _)
SeqsUpTo(S, n) ==
    IF n = 0 THEN {<<>>}
    ELSE LET shorter == SeqsUpTo(S, n - 1)
         IN  shorter \cup {Append(t, x) : t \in shorter, x \in S}

\* the texts of up to maxText tokens
Texts(maxText) == SeqsUpTo(Tokens, maxText)

\* no value (undefined, or the empty string) at a place where a name can be
NoName == ""

\* a null entry of groundingChunks
NullChunk ==
    [shape |-> "null", web |-> FALSE, ctx |-> FALSE, displayName |-> NoName,
     path |-> NoName, textKind |-> "missing", text |-> <<>>]
\* a web source
WebChunk == [NullChunk EXCEPT !.shape = "object", !.web = TRUE]
\* a chunk without retrievedContext
BareChunk == [NullChunk EXCEPT !.shape = "object"]
\* chunks with a retrievedContext: displayName and metadata.path set or not,
\* text missing, a string, or a value that is no string (and not falsy)
ContextChunks(maxText) ==
    {[shape |-> "object", web |-> FALSE, ctx |-> TRUE, displayName |-> dn,
      path |-> pa, textKind |-> "string", text |-> t] :
        dn \in {NoName, "Note.md"}, pa \in {NoName, "dir/Note.md"}, t \in Texts(maxText)}
    \cup
    {[shape |-> "object", web |-> FALSE, ctx |-> TRUE, displayName |-> dn,
      path |-> pa, textKind |-> k, text |-> <<>>] :
        dn \in {NoName, "Note.md"}, pa \in {NoName, "dir/Note.md"},
        k \in {"missing", "other"}}

Chunks(maxText) == {NullChunk, WebChunk, BareChunk} \cup ContextChunks(maxText)

\* groundingMetadata: null, without groundingChunks, with groundingChunks that
\* is no list, or with a list of up to maxChunks chunks
NullMetadata == [shape |-> "null", chunks |-> <<>>]
GroundingMetadata(maxChunks, maxText) ==
    {[shape |-> k, chunks |-> <<>>] : k \in {"null", "noChunks", "nonList"}}
    \cup {[shape |-> "list", chunks |-> c] : c \in SeqsUpTo(Chunks(maxText), maxChunks)}

\* grounding metadata whose chunks are retrieved contexts with a text and no
\* file name
RawTextMetadata(maxChunks, maxText) ==
    {[shape |-> "list", chunks |-> c] :
        c \in SeqsUpTo({chunk \in ContextChunks(maxText) :
                            /\ chunk.displayName = NoName /\ chunk.path = NoName
                            /\ chunk.textKind = "string"},
                       maxChunks)}

\* Set.add on a Set that iterates in insertion order
SetAdd(set, x) == IF x \in Range(set) THEN set ELSE Append(set, x)

RECURSIVE SetAddAll(_, _)
SetAddAll(set, xs) ==
    IF xs = <<>> THEN set ELSE SetAddAll(SetAdd(set, Head(xs)), Tail(xs))

\* context?.displayName || ... || context?.metadata?.path || ... (main.ts 3643-3649)
fileNameOf(chunk) ==
    IF ~chunk.ctx THEN NoName
    ELSE IF chunk.displayName # NoName THEN chunk.displayName
    ELSE chunk.path

\* text.trim().substring(0, 80), quoted (main.ts 3672-3674)
previewOf(text) ==
    <<"preview", SubSeq(text, 1, IF Len(text) < previewLength
                                  THEN Len(text) ELSE previewLength)>>

NoSets == [thrown |-> FALSE, fileNames |-> <<>>, obsidianLinks |-> <<>>,
           hashtags |-> <<>>, textPreviews |-> <<>>]

\* the body of chunks.forEach (main.ts 3632-3677) on one chunk; `thrown` is a
\* TypeError (a property of null, or matchAll of a value that is no string)
forEachChunk(sets, chunk) ==
    IF sets.thrown THEN sets
    ELSE IF chunk.shape = "null" THEN [sets EXCEPT !.thrown = TRUE]
    ELSE IF chunk.web THEN sets
    ELSE IF chunk.ctx /\ chunk.textKind = "other" THEN [sets EXCEPT !.thrown = TRUE]
    ELSE
      LET fileName == fileNameOf(chunk)
          text == IF chunk.ctx /\ chunk.textKind = "string" THEN chunk.text ELSE <<>>
          fileNames == IF fileName # NoName
                       THEN SetAdd(sets.fileNames, fileName) ELSE sets.fileNames
          obsidianLinks == SetAddAll(sets.obsidianLinks,
                                     SelectSeq(text, LAMBDA t : t = Link))
          hashtags == SetAddAll(sets.hashtags, SelectSeq(text, LAMBDA t : t = Tag))
          textPreviews ==
              IF Len(obsidianLinks) = 0 /\ Len(fileNames) = 0 /\ text # <<>>
              THEN SetAdd(sets.textPreviews, previewOf(text))
              ELSE sets.textPreviews
      IN  [thrown |-> FALSE, fileNames |-> fileNames, obsidianLinks |-> obsidianLinks,
           hashtags |-> hashtags, textPreviews |-> textPreviews]

RECURSIVE forEach(_, _)
forEach(sets, chunks) ==
    IF chunks = <<>> THEN sets
    ELSE forEach(forEachChunk(sets, Head(chunks)), Tail(chunks))

Tagged(kind, set) == [k \in 1..Len(set) |-> <<kind, set[k]>>]

\* what formatCitations returns: "" (empty), the count-only statement, the
\* <details> list of sources, or no value because it threw
Citations(kind, n, sources) == [kind |-> kind, n |-> n, sources |-> sources]

\* the hashtags are listed whenever there are some
showHashtags_alone(hashtags, obsidianLinks, fileNames) == Len(hashtags) > 0

\* "Show hashtags alongside links/files as additional context" (main.ts 3690)
showHashtags(hashtags, obsidianLinks, fileNames) ==
    Len(hashtags) > 0 /\ (Len(obsidianLinks) > 0 \/ Len(fileNames) > 0)

\* the text previews are listed whenever there are some
useTextPreviews_always(allSources, textPreviews) == Len(textPreviews) > 0

\* "Fallback to text previews if no structured info found" (main.ts 3695)
useTextPreviews(allSources, textPreviews) ==
    Len(allSources) = 0 /\ Len(textPreviews) > 0

\* formatCitations (main.ts 3616-3710)
formatCitations(groundingMetadata) ==
    IF groundingMetadata.shape \in {"null", "noChunks"} THEN Citations("empty", 0, <<>>)
    ELSE IF groundingMetadata.shape = "nonList" THEN Citations("throws", 0, <<>>)
    ELSE IF Len(groundingMetadata.chunks) = 0 THEN Citations("empty", 0, <<>>)
    ELSE
      LET chunks == groundingMetadata.chunks
          sets == forEach(NoSets, chunks)
          named == IF Len(sets.fileNames) > 0 THEN Tagged("file", sets.fileNames)
                   ELSE IF Len(sets.obsidianLinks) > 0
                        THEN Tagged("link", sets.obsidianLinks)
                   ELSE <<>>
          withTags == IF showHashtags(sets.hashtags, sets.obsidianLinks, sets.fileNames)
                      THEN named \o Tagged("tag", sets.hashtags)
                      ELSE named
          allSources == IF useTextPreviews(withTags, sets.textPreviews)
                        THEN withTags \o
                             SubSeq(sets.textPreviews, 1,
                                    IF Len(sets.textPreviews) < previewLimit
                                    THEN Len(sets.textPreviews) ELSE previewLimit)
                        ELSE withTags
          count == IF Len(sets.fileNames) # 0 THEN Len(sets.fileNames)
                   ELSE IF Len(sets.obsidianLinks) # 0 THEN Len(sets.obsidianLinks)
                   ELSE Len(sets.textPreviews)
      IN  IF sets.thrown THEN Citations("throws", 0, <<>>)
          ELSE IF Len(allSources) = 0 THEN Citations("count", Len(chunks), <<>>)
          ELSE Citations("details", count, allSources)

\* ------------------------------------------------------------ the chat view
\* ragMode after toggleRAGMode (main.ts 3584-3596): a notice and no change
\* unless RAG is enabled and there is a service with a store name
ragModeAfterToggle(ragMode, ragEnabled, hasService, storeName) ==
    IF ~ragEnabled THEN ragMode
    ELSE IF ~hasService \/ storeName = Null THEN ragMode
    ELSE ~ragMode

\* The RAG button -> toggleRAGMode (main.ts 3584-3614), where it changes ragMode
toggleRAGMode ==
    /\ Quiet
    /\ chat' = [chat EXCEPT !.ragMode =
                  ragModeAfterToggle(@, settings.ragEnabled, ragService,
                                     fileSearchStoreName)]
    /\ chat'.ragMode # chat.ragMode
    /\ UNCHANGED ragVars

\* a second or more passes without an API call
CooldownElapsed ==
    /\ Quiet
    /\ chat.elapsed < API_COOLDOWN
    /\ chat' = [chat EXCEPT !.elapsed = API_COOLDOWN]
    /\ UNCHANGED ragVars

\* handleMessage up to `await this.addMessageToChat` (main.ts 2409-2474), for a
\* message that is not blank, with an API key set.  Inside the cooldown: the
\* error message and return.  The context is built only with ragMode off.
SendMessage(q) ==
    /\ Quiet
    /\ chat.hm[q].pc = "idle"
    /\ chat' = [chat EXCEPT !.hm[q] =
                  IF chat.elapsed < API_COOLDOWN
                  THEN [IdleQuery EXCEPT !.outcome = "cooldown"]
                  ELSE [IdleQuery EXCEPT !.pc = "adding", !.context = ~chat.ragMode]]
    /\ UNCHANGED ragVars

\* handleMessage, the choice of the backend, without its second branch
backendFor_fallThrough(ragMode, hasService, storeName) ==
    IF ragMode /\ hasService /\ storeName # Null THEN "rag" ELSE "plain"

\* handleMessage, the choice of the backend (main.ts 2492-2509)
backendFor(ragMode, hasService, storeName) ==
    IF ragMode /\ hasService /\ storeName # Null THEN "rag"
    ELSE IF ragMode /\ (~hasService \/ storeName = Null) THEN "notSynced"
    ELSE "plain"

\* addMessageToChat resolved (main.ts 2487-2509): lastApiCall = Date.now(), then
\* queryWithRAG (which names the store that is active now, RAGService 456-474),
\* or the "hasn't been synced yet" error and return, or sendMessage
RouteMessage(q) ==
    /\ Quiet
    /\ chat.hm[q].pc = "adding"
    /\ LET backend == backendFor(chat.ragMode, ragService, fileSearchStoreName)
       IN  chat' = [chat EXCEPT
                !.elapsed = 0,
                !.hm[q] = IF backend = "notSynced"
                          THEN [@ EXCEPT !.pc = "idle", !.outcome = "notSynced",
                                         !.ragModeAtCall = chat.ragMode]
                          ELSE [@ EXCEPT !.pc = backend, !.called = backend,
                                         !.calls = @ + 1,
                                         !.ragModeAtCall = chat.ragMode,
                                         !.store = IF backend = "rag"
                                                   THEN fileSearchStoreName ELSE Null]]
    /\ UNCHANGED ragVars

\* ----------------------------------------------- handleMessage: the catch
\* What a backend rejects with: an Error or some other value, and which of the
\* substrings that the catch looks for its message contains.
Markers == {"SAFETY", "blocked", "OTHER", "429", "quota", "400", "401", "403", "500"}
Errors == [isError : BOOLEAN, marks : SUBSET Markers]

\* the TypeError of formatCitations, and a failure of the network
TypeError == [isError |-> TRUE, marks |-> {}]
\* HTTP 429
RateLimited == [isError |-> TRUE, marks |-> {"429"}]

\* queryWithRAG's catch (RAGService 485-488): a new Error whose message ends
\* with the message of the caught one ("undefined" for a value without one)
wrapped(error) ==
    [isError |-> TRUE, marks |-> IF error.isError THEN error.marks ELSE {}]

\* the catch of handleMessage with "429" looked for before "SAFETY"
errorMessageFor_rateLimitFirst(error) ==
    IF ~error.isError THEN "generic"
    ELSE IF "429" \in error.marks \/ "quota" \in error.marks THEN "rateLimit"
    ELSE IF "SAFETY" \in error.marks THEN "safety"
    ELSE IF "blocked" \in error.marks \/ "OTHER" \in error.marks THEN "blocked"
    ELSE IF "400" \in error.marks THEN "invalidRequest"
    ELSE IF "401" \in error.marks \/ "403" \in error.marks THEN "authentication"
    ELSE IF "500" \in error.marks THEN "server"
    ELSE "generic"

\* the catch of handleMessage (main.ts 2545-2589): the message to show
errorMessageFor(error) ==
    IF ~error.isError THEN "generic"
    ELSE IF "SAFETY" \in error.marks THEN "safety"
    ELSE IF "blocked" \in error.marks \/ "OTHER" \in error.marks THEN "blocked"
    ELSE IF "429" \in error.marks \/ "quota" \in error.marks THEN "rateLimit"
    ELSE IF "400" \in error.marks THEN "invalidRequest"
    ELSE IF "401" \in error.marks \/ "403" \in error.marks THEN "authentication"
    ELSE IF "500" \in error.marks THEN "server"
    ELSE "generic"

\* a catch that sends a rate-limited request again
afterError_retry(message) == IF message = "rateLimit" THEN "adding" ELSE "idle"

\* after the catch of handleMessage (main.ts 2591-2593): addErrorMessage, and
\* handleMessage returns
afterError(message) == "idle"

\* handleMessage's catch on `error`
Caught(q, error) ==
    [chat.hm[q] EXCEPT !.pc = afterError(errorMessageFor(error)),
                       !.outcome = errorMessageFor(error),
                       !.error = error]

\* queryWithRAG resolved with a text and the grounding metadata `gm` (RAGService
\* 468-482, main.ts 2494-2519): formatCitations if there is metadata, then the
\* bot message is added.  A remote that no longer has the store rejects.
RagAnswered(q, gm) ==
    /\ Quiet
    /\ chat.hm[q].pc = "rag"
    /\ chat.hm[q].store \in remoteStores
    /\ LET cited == IF gm.shape = "null"
                    THEN Citations("empty", 0, <<>>) ELSE formatCitations(gm)
       IN  chat' = [chat EXCEPT !.hm[q] =
                IF cited.kind = "throws"
                THEN [Caught(q, TypeError) EXCEPT !.gm = gm, !.citations = cited]
                ELSE [@ EXCEPT !.pc = "idle", !.outcome = "answered",
                               !.botAnswer = TRUE, !.gm = gm, !.citations = cited]]
    /\ UNCHANGED ragVars

\* sendMessage resolved (main.ts 2508-2519): the bot message is added
PlainAnswered(q) ==
    /\ Quiet
    /\ chat.hm[q].pc = "plain"
    /\ chat' = [chat EXCEPT !.hm[q] =
                  [@ EXCEPT !.pc = "idle", !.outcome = "answered", !.botAnswer = TRUE]]
    /\ UNCHANGED ragVars

\* the backend call rejects with `error`: sendMessage rethrows it (GeminiService
\* 36-39), queryWithRAG wraps it; the catch of handleMessage (main.ts
\* 2542-2592) shows an error message
BackendFailed(q, error) ==
    /\ Quiet
    /\ chat.hm[q].pc \in {"rag", "plain"}
    /\ chat' = [chat EXCEPT !.hm[q] =
                  Caught(q, IF chat.hm[q].pc = "rag" THEN wrapped(error) ELSE error)]
    /\ UNCHANGED ragVars

\* The steps of a handleMessage call, with the answers and errors the
\* backends may give
ChatStep(q, metadata, errors) ==
    \/ SendMessage(q) \/ RouteMessage(q)
    \/ chat.hm[q].pc = "rag" /\ \E gm \in metadata : RagAnswered(q, gm)
    \/ PlainAnswered(q)
    \/ chat.hm[q].pc \in {"rag", "plain"} /\ \E error \in errors : BackendFailed(q, error)

\* ------------------------------------------------------- specifications
\* The steps of a "Sync Now" handler that every specification has
RunStep(h) ==
    \/ ClickSync(h)
    \/ SyncVaultStart(h) \/ ScanRead(h) \/ AfterScan(h)
    \/ LoopTop(h) \/ ReadOk(h)
    \/ UploadAccepted(h) \/ UploadDone(h) \/ UploadRejected(h)
    \/ RemoteImport(h) \/ PollDone(h) \/ PollNotDone(h, MaxStall) \/ PollFail(h)
    \/ SyncCompleted(h) \/ MetadataSaved(h)

\* with the steps of its initializeStore
SyncStep(h) ==
    \/ RunStep(h)
    \/ CreateStoreOk(h) \/ CreateStoreFail(h) \/ StoreSaved(h) \/ SyncError(h)

\* The steps of a "Delete Store" handler
DeleteStep(h) ==
    \/ ClickDelete(h) \/ DeleteStoreOk(h) \/ DeleteStoreFail(h)
    \/ DeleteSaved(h) \/ DeleteError(h)

vars == <<ragVars, chat>>

\* Spec: one settings-tab handler at a time (the user waits for a handler to
\* return before the next click) over a vault whose documents are edited under
\* it.  uploadFile never finds the store name unset here, so its
\* initializeStore branch is not in Next.
Init == InitWith(1..NumDocs, FALSE)

Next ==
    \/ SyncStep(1)
    \/ DeleteStep(1)
    \/ \E d \in Docs, c \in Contents : EditDoc(d, c)
    \/ \E value \in BOOLEAN : ToggleEnableRAG(value)
    \/ \E value \in Folders : SetFolderPath(value)

Spec == Init /\ [][Next]_vars

\* SpecOverlap: clicks come in while earlier handlers are still awaiting; the
\* vault does not change.
NextOverlap ==
    \/ \E h \in Handlers : SyncStep(h)
    \/ \E h \in Handlers : LazyCreateOk(h) \/ LazyCreateFail(h)
    \/ \E h \in Handlers : DeleteStep(h)
    \/ ToggleEnableRAG(TRUE)

InitOverlap == InitWith(1..NumDocs, FALSE)

SpecOverlap == InitOverlap /\ [][NextOverlap]_vars

\* SpecDeleteRace: one "Sync Now" handler and one "Delete Store" handler that
\* overlap; no two syncVault runs overlap.  The vault does not change.
NextDeleteRace ==
    \/ SyncStep(1)
    \/ LazyCreateOk(1) \/ LazyCreateFail(1)
    \/ DeleteStep(2)
    \/ ToggleEnableRAG(TRUE)

SpecDeleteRace == InitOverlap /\ [][NextDeleteRace]_vars

\* SpecVault: one "Sync Now" handler at a time over a vault in which documents
\* are edited, created and deleted under it
NextVault ==
    \/ SyncStep(1) \/ ScanReadFail(1) \/ ReadFail(1)
    \/ \E d \in Docs, c \in Contents : EditDoc(d, c)
    \/ \E d \in Docs, c \in Contents : CreateDoc(d, c)
    \/ \E d \in Docs : DeleteDoc(d)
    \/ ToggleEnableRAG(TRUE)

SpecVault == Init /\ [][NextVault]_vars

\* SpecPoll: one handler at a time over a vault that does not change, with a
\* remote that accepts every upload and may leave the operation unfinished
\* for any number of polls; no call fails otherwise.
InitPoll == InitWith(1..NumDocs, TRUE)

NextPoll ==
    \/ ClickSync(1) \/ CreateStoreOk(1) \/ StoreSaved(1)
    \/ SyncVaultStart(1) \/ ScanRead(1) \/ AfterScan(1)
    \/ LoopTop(1) \/ ReadOk(1) \/ UploadAccepted(1)
    \/ RemoteImport(1) \/ PollDone(1) \/ PollNotDone(1, maxAttempts + 1)
    \/ SyncCompleted(1) \/ MetadataSaved(1)
    \/ ToggleEnableRAG(TRUE)

SpecPoll == InitPoll /\ [][NextPoll]_vars

\* SpecTerminate: one handler over a vault that does not change, with a remote
\* whose every call returns: an upload is accepted, finished at once or
\* rejected, operations.get answers "done", "not done" (any number of times)
\* or rejects.  A call that was made returns, so the handler's next step is
\* taken: weak fairness on the steps of syncVault.  When the remote finishes
\* an import (RemoteImport) is the remote's choice.
SyncVaultStep(h) ==
    \/ SyncVaultStart(h) \/ ScanRead(h) \/ AfterScan(h)
    \/ LoopTop(h) \/ ReadOk(h)
    \/ UploadAccepted(h) \/ UploadDone(h) \/ UploadRejected(h)
    \/ PollDone(h) \/ PollNotDone(h, maxAttempts + 1) \/ PollFail(h)
    \/ SyncCompleted(h)

NextTerminate ==
    \/ ClickSync(1) \/ CreateStoreOk(1) \/ StoreSaved(1)
    \/ SyncVaultStep(1)
    \/ RemoteImport(1)
    \/ MetadataSaved(1)
    \/ ToggleEnableRAG(TRUE)

SpecTerminate == InitPoll /\ [][NextTerminate]_vars /\ WF_vars(SyncVaultStep(1))

\* SpecBatch: one handler at a time over a larger vault that does not change
InitBatch == InitWith(1..BatchDocs, TRUE)

NextBatch ==
    \/ SyncStep(1)
    \/ ToggleEnableRAG(TRUE)

SpecBatch == InitBatch /\ [][NextBatch]_vars

\* SpecChat: the chat view next to one settings-tab handler at a time, whose
\* uploads are accepted and imported
NextChat ==
    \/ ClickSync(1)
    \/ CreateStoreOk(1) \/ CreateStoreFail(1) \/ StoreSaved(1) \/ SyncError(1)
    \/ SyncVaultStart(1) \/ ScanRead(1) \/ AfterScan(1)
    \/ LoopTop(1) \/ ReadOk(1)
    \/ UploadAccepted(1) \/ RemoteImport(1) \/ PollDone(1)
    \/ SyncCompleted(1) \/ MetadataSaved(1)
    \/ DeleteStep(1)
    \/ ToggleEnableRAG(TRUE)
    \/ toggleRAGMode
    \/ CooldownElapsed
    \/ \E q \in Queries : ChatStep(q, {NullMetadata}, {RateLimited})

InitChat == InitWith(1..ChatDocs, FALSE)

SpecChat == InitChat /\ [][NextChat]_vars

\* The plugin after a synchronisation of the vault into store 1, no handler of
\* the settings tab running
Synced ==
    /\ history = FALSE
    /\ vault = [d \in 1..ChatDocs |-> 1]
    /\ syncedFiles = [d \in 1..ChatDocs |-> uploadedRecord(calculateHash(1))]
    /\ ragService = TRUE
    /\ fileSearchStoreName = 1
    /\ syncProgress = InitialProgress
    /\ settings = [ragEnabled |-> TRUE, ragFolderPath |-> RootFolder,
                   ragStoreName |-> 1,
                   ragSyncedFiles |-> getSyncedFilesMetadata(syncedFiles)]
    /\ remoteStores = {1}
    /\ storesCreated = 1
    /\ remoteDocs = [s \in 1..MaxStores |->
                        IF s = 1 THEN {<<d, calculateHash(1)>> : d \in 1..ChatDocs}
                        ELSE {}]
    /\ hd = [h \in Handlers |-> IdleHandler]
    /\ lastRun = NoRun

\* SpecCite: a handleMessage call that waits for queryWithRAG, with RAG mode
\* on; the backend answers with any grounding metadata.
InitCite ==
    /\ Synced
    /\ chat = [ragMode |-> TRUE, elapsed |-> 0,
               hm |-> [q \in Queries |->
                         IF q = 1
                         THEN [IdleQuery EXCEPT !.pc = "rag", !.called = "rag",
                                                !.calls = 1, !.ragModeAtCall = TRUE,
                                                !.store = 1]
                         ELSE IdleQuery]]

NextCite ==
    /\ chat.hm[1].pc = "rag"
    /\ \E gm \in GroundingMetadata(MaxChunks, MaxText) : RagAnswered(1, gm)

SpecCite == InitCite /\ [][NextCite]_vars

\* SpecReply: the chat view alone, one message at a time, RAG mode switched on
\* and off; a backend rejects with any error
InitReply == Synced /\ chat = InitialChat

NextReply ==
    \/ toggleRAGMode
    \/ CooldownElapsed
    \/ ChatStep(1, {NullMetadata}, Errors)

SpecReply == InitReply /\ [][NextReply]_vars

\* SpecCooldown: the chat view alone; a message may be sent while handleMessage
\* calls for earlier messages are still awaiting (the send button and the Enter
\* key call handleMessage without awaiting it, main.ts 3147-3166)
InitCooldown ==
    /\ Synced
    /\ chat = [InitialChat EXCEPT !.hm = [q \in 1..NumOverlapping |-> IdleQuery]]

NextCooldown ==
    \/ toggleRAGMode
    \/ CooldownElapsed
    \/ \E q \in DOMAIN chat.hm : ChatStep(q, {NullMetadata}, {RateLimited})

SpecCooldown == InitCooldown /\ [][NextCooldown]_vars

\* SpecCancel: one "Sync Now" handler at a time whose caller may ask a running
\* syncVault to stop; the vault does not change
NextCancel ==
    \/ SyncStep(1)
    \/ RequestCancel(1)
    \/ ToggleEnableRAG(TRUE)

SpecCancel == Init /\ [][NextCancel]_vars

\* SpecRestart: one "Sync Now" handler at a time over a vault that does not
\* change; between two handlers the application may be closed and opened again
NextRestart ==
    \/ SyncStep(1)
    \/ Restart
    \/ ToggleEnableRAG(TRUE)

SpecRestart == InitPoll /\ [][NextRestart]_vars

\* SpecRestartRace: a "Sync Now" handler whose uploads all succeed, a "Delete
\* Store" handler that may overlap it, and restarts while no handler runs
NextRestartRace ==
    \/ ClickSync(1)
    \/ CreateStoreOk(1) \/ StoreSaved(1)
    \/ SyncVaultStart(1) \/ ScanRead(1) \/ AfterScan(1)
    \/ LoopTop(1) \/ LazyCreateOk(1) \/ ReadOk(1)
    \/ UploadAccepted(1) \/ RemoteImport(1) \/ PollDone(1)
    \/ SyncCompleted(1) \/ MetadataSaved(1)
    \/ DeleteStep(2)
    \/ Restart
    \/ ToggleEnableRAG(TRUE)

SpecRestartRace == InitPoll /\ [][NextRestartRace]_vars

\* SpecEdit: one "Sync Now" handler at a time whose uploads are accepted and
\* imported, over documents that are edited at any time
NextEdit ==
    \/ ClickSync(1)
    \/ CreateStoreOk(1) \/ StoreSaved(1)
    \/ SyncVaultStart(1) \/ ScanRead(1) \/ AfterScan(1)
    \/ LoopTop(1) \/ ReadOk(1)
    \/ UploadAccepted(1) \/ UploadDone(1) \/ RemoteImport(1) \/ PollDone(1)
    \/ SyncCompleted(1) \/ MetadataSaved(1)
    \/ \E d \in Docs, c \in Contents : EditDoc(d, c)
    \/ ToggleEnableRAG(TRUE)

SpecEdit == InitChat /\ [][NextEdit]_vars

\* SpecPreview: as SpecCite, the backend answering with longer lists of chunks
\* of raw text
NextPreview ==
    /\ chat.hm[1].pc = "rag"
    /\ \E gm \in RawTextMetadata(MaxPreviewChunks, MaxPreviewText) : RagAnswered(1, gm)

SpecPreview == InitCite /\ [][NextPreview]_vars

\* SpecDelta: the plugin loaded with the settings of an earlier session, any
\* records over any vault, and synchronised from there; the vault does not
\* change.  Every record is of an upload into the store of the settings.
InitDelta ==
    /\ history = FALSE
    /\ vault \in [1..NumDocs -> Contents \cup {Absent}]
    /\ syncedFiles \in [1..NumDocs ->
            {NoRec} \cup {uploadedRecord(calculateHash(c)) : c \in Contents}]
    /\ ragService = TRUE
    /\ fileSearchStoreName = 1
    /\ syncProgress = InitialProgress
    /\ \E folder \in Folders :
          settings = [ragEnabled |-> TRUE, ragFolderPath |-> folder,
                      ragStoreName |-> 1,
                      ragSyncedFiles |-> getSyncedFilesMetadata(syncedFiles)]
    /\ remoteStores = {1}
    /\ storesCreated = 1
    /\ remoteDocs = [s \in 1..MaxStores |->
                        IF s = 1
                        THEN {<<d, syncedFiles[d].hash>> :
                                d \in {e \in 1..NumDocs : syncedFiles[e].present}}
                        ELSE {}]
    /\ hd = [h \in Handlers |-> IdleHandler]
    /\ lastRun = NoRun
    /\ chat = InitialChat

NextDelta == RunStep(1)

SpecDelta == InitDelta /\ [][NextDelta]_vars

\* ================================================================ properties
\* the result of a syncVault that returned, as syncVaultWithProgress holds it
\* while it saves the records
Returned(h) == hd[h].pc = "saveMetadata" /\ hd[h].result.kind = "synced"

\* the paths that have a record
Recorded_Paths == {d \in Docs : syncedFiles[d].present}

\* ------------------------------------------------------------------- C1
\* C1 as the specification states it: whenever a syncVault run follows another
\* one over the same scope with no document change in between (SpecBatch: the
\* vault never changes, the scope is never edited), the second run selects
\* nothing, returns success = 0 and skipped = the number of documents in scope,
\* and starts no upload.
C1_SecondRunSelectsNothing ==
    \A h \in Handlers :
        /\ (Returned(h) /\ hd[h].result.prev.valid) =>
              /\ hd[h].result.delta = 0
              /\ hd[h].result.success = 0
              /\ hd[h].result.skipped = hd[h].result.inScope
        /\ (hd[h].pc \in UploadPcs) => ~hd[h].prev.valid

\* C1, amended: the same, provided no upload of the first run failed (the first
\* run returned failed = 0).
C1_SecondRunSelectsNothingAfterCleanRun ==
    \A h \in Handlers :
        /\ (Returned(h) /\ hd[h].result.prev.valid /\ hd[h].result.prev.failed = {}) =>
              /\ hd[h].result.delta = 0
              /\ hd[h].result.success = 0
              /\ hd[h].result.failed = 0
              /\ hd[h].result.skipped = hd[h].result.inScope
        /\ (hd[h].pc \in UploadPcs) => ~(hd[h].prev.valid /\ hd[h].prev.failed = {})

\* a second run returned, after a first run that uploaded every document
C1_Witness ==
    \E h \in Handlers :
        /\ Returned(h) /\ hd[h].result.prev.valid /\ hd[h].result.prev.failed = {}
        /\ hd[h].result.skipped = BatchDocs
        /\ Recorded_Paths = Docs

\* ------------------------------------------------------------------- C2
\* the documents getFilesToSync has to return: those in scope (existing, and
\* under the folder if one is given) with no record or with a record whose
\* hash is not the hash of the current content
C2_Expected(folder) ==
    {d \in Docs :
        /\ vault[d] # Absent
        /\ folder = Undefined \/ PathDir(d) = folder
        /\ \/ ~syncedFiles[d].present
           \/ syncedFiles[d].hash # calculateHash(vault[d])}

\* C2: for every vault and every set of records, when getFilesToSync returns,
\* its list holds exactly the documents in scope that have no record or whose
\* recorded hash differs from the hash of their current content, each once; so
\* with K changed documents K are returned, and with no document none is.
C2_DeltaCorrect ==
    \A h \in Handlers :
        hd[h].pc = "afterScan" =>
            /\ Range(hd[h].filesToSync) = C2_Expected(hd[h].folder)
            /\ Len(hd[h].filesToSync) = Cardinality(C2_Expected(hd[h].folder))
            /\ (\A d \in Docs : vault[d] = Absent) => hd[h].filesToSync = <<>>

\* getFilesToSync returned one of two recorded documents: the one whose content
\* changed since its upload
C2_Witness ==
    \E h \in Handlers :
        /\ hd[h].pc = "afterScan"
        /\ hd[h].folder = Undefined
        /\ \A d \in Docs : vault[d] # Absent /\ syncedFiles[d].present
        /\ Len(hd[h].filesToSync) = 1

\* ------------------------------------------------------------------- C3
\* C3: a run over a delta of 5 documents in which the upload of item 3 fails
\* and the others succeed goes through all 5, returns {success: 4, failed: 1,
\* skipped: 0} and leaves records for exactly the 4 uploaded documents; in any
\* run every item of the delta is attempted once (the loop index is one past
\* the items counted so far, and success + failed = the delta at the end); and
\* the delta of the next run is exactly the set of items that failed.
C3_PartialFailure ==
    \A h \in Handlers :
        /\ (Returned(h) /\ hd[h].result.delta = BatchDocs /\ hd[h].failed = {3}) =>
              /\ hd[h].result.success = BatchDocs - 1
              /\ hd[h].result.failed = 1
              /\ hd[h].result.skipped = 0
              /\ Recorded_Paths = Docs \ {3}
        /\ (hd[h].pc \in UploadPcs \cup {"loop", "completed"}) =>
              /\ hd[h].successCount + hd[h].failedCount = hd[h].i - 1
              /\ hd[h].failedCount = Cardinality(hd[h].failed)
              /\ hd[h].i <= Len(hd[h].filesToSync) + 1
        /\ (hd[h].pc = "completed") => hd[h].i = Len(hd[h].filesToSync) + 1
        /\ Returned(h) =>
              hd[h].result.success + hd[h].result.failed = hd[h].result.delta
        /\ (hd[h].pc = "afterScan" /\ hd[h].prev.valid) =>
              Range(hd[h].filesToSync) = hd[h].prev.failed

\* the run after the one in which only item 3 failed has selected item 3
C3_Witness ==
    \E h \in Handlers :
        /\ hd[h].pc = "afterScan"
        /\ hd[h].prev.valid /\ hd[h].prev.failed = {3}
        /\ hd[h].filesToSync = <<3>>
        /\ Recorded_Paths = Docs \ {3}

\* ------------------------------------------------------------------- C4
\* C4: a handleMessage call that reaches the choice of the backend with RAG
\* mode on and no active handle (no RAG service, or no store name) ends there
\* with the "not synced" error and has called no backend; and no handleMessage
\* call calls the plain backend (sendMessage) while RAG mode is on.
C4_RetrievalNeedsHandle ==
    [][\A q \in Queries :
          /\ (/\ chat.hm[q].pc = "adding" /\ chat'.hm[q].pc # "adding"
              /\ chat.ragMode
              /\ ~ragService \/ fileSearchStoreName = Null) =>
                 /\ chat'.hm[q].pc = "idle"
                 /\ chat'.hm[q].outcome = "notSynced"
                 /\ chat'.hm[q].called = "none"
          /\ (chat.hm[q].pc # "plain" /\ chat'.hm[q].pc = "plain") => ~chat.ragMode
          /\ chat'.hm[q].outcome = "notSynced" => chat'.hm[q].called = "none"]_vars

\* a query ended "not synced": RAG mode is on and the store was deleted
C4_Witness ==
    \E q \in Queries :
        /\ chat.hm[q].outcome = "notSynced"
        /\ chat.ragMode
        /\ fileSearchStoreName = Null

\* ------------------------------------------------------------------- C5
\* pcs of a syncVault call between its reset of processed and its return
CountingPcs == UploadPcs \cup {"loop", "completed"}
\* pcs of a syncVault call that still has an item to upload
PendingPcs == UploadPcs \cup {"loop"}

\* C5: during one syncVault call, from its reset of processed on, no step makes
\* syncProgress.processed smaller; processed is below total as long as an item
\* of the call is pending; and processed = total with status "completed" when
\* the call returns.
C5_ProgressMonotone ==
    [][\A h \in Handlers :
          /\ (hd[h].pc \in CountingPcs /\ hd'[h].pc \in CountingPcs \cup {"saveMetadata"}) =>
                syncProgress'.processed >= syncProgress.processed
          /\ (hd'[h].pc \in PendingPcs) =>
                syncProgress'.processed < syncProgress'.total
          /\ (hd[h].pc = "completed" /\ hd'[h].pc = "saveMetadata") =>
                /\ syncProgress'.processed = syncProgress'.total
                /\ syncProgress'.status = "completed"]_vars

\* ------------------------------------------------------------------- C6
\* C6: in a syncVault run over the delta d, while the upload of the item at
\* (0-based) index i is under way the progress callback was last called for
\* that item, with current = its name and processed = i; the step that ends
\* the upload of an item, with success or not, adds 1 to processed.
C6_CallbackOrder ==
    [][\A h \in Handlers :
          /\ (hd'[h].pc \in UploadPcs) =>
                hd'[h].shown = [current |-> FileName(hd'[h].filesToSync[hd'[h].i]),
                                processed |-> hd'[h].i - 1]
          /\ (hd[h].pc \in UploadPcs /\ hd'[h].pc \notin UploadPcs) =>
                syncProgress'.processed = syncProgress.processed + 1]_vars

\* ------------------------------------------------------------------- C7
\* C7: the step in which a "Delete Store" on the active store succeeds leaves
\* the active handle null, no record in syncedFiles, so that getSyncStats()
\* is {total: 0, synced: 0, pending: 0}, and the settings with ragStoreName
\* null and no ragSyncedFiles.
C7_DeleteClears ==
    [][\A h \in Handlers :
          (/\ hd[h].pc = "delete" /\ hd'[h].pc = "saveDeleted"
           /\ hd[h].storeName = fileSearchStoreName) =>
              /\ fileSearchStoreName' = Null
              /\ \A d \in Docs : syncedFiles'[d] = NoRec
              /\ getSyncStats(syncedFiles') = [total |-> 0, synced |-> 0, pending |-> 0]
              /\ settings'.ragStoreName = Null
              /\ settings'.ragSyncedFiles = {}]_vars

\* a "Delete Store" succeeded on the active store while a syncVault that had
\* uploaded a document into it, and recorded that, is at its next upload
C7_Witness ==
    \E h, g \in Handlers :
        /\ hd[h].pc = "saveDeleted"
        /\ hd[g].pc \in UploadPcs /\ hd[g].successCount >= 1
        /\ fileSearchStoreName = Null
        /\ getSyncStats(syncedFiles) = [total |-> 0, synced |-> 0, pending |-> 0]
        /\ settings.ragStoreName = Null

\* ------------------------------------------------------------------- C8
\* C8: in every reachable state, every record with uploaded = true is of a
\* document that was uploaded, with the recorded hash, into the store of the
\* active handle; so with no active handle there is no such record.
C8_RecordsInActiveStore ==
    \A d \in Docs :
        syncedFiles[d].uploaded =>
            /\ fileSearchStoreName # Null
            /\ <<d, syncedFiles[d].hash>> \in remoteDocs[fileSearchStoreName]

\* ------------------------------------------------------------------- C9
\* C9: at no time are two syncVault runs active on the RAGService
C9_SingleSyncInFlight ==
    Cardinality({h \in Handlers : hd[h].pc \in SyncVaultPcs}) <= 1

\* ------------------------------------------------------------------ C10
\* C10: as long as no store was deleted, at most one store was created
C10_AtMostOneStore ==
    (remoteStores = 1..storesCreated) => storesCreated <= 1

\* ------------------------------------------------------------------ C11
\* C11: in every syncVault run, also when documents are created or deleted
\* while it computes its delta, skipped (the number of in-scope documents
\* minus the size of the delta, as syncVault counts it) is not negative, and
\* the return value has success + failed = the size of the delta and
\* skipped >= 0, so that success + failed + skipped is at least the delta.
C11_SummaryAccounting ==
    \A h \in Handlers :
        /\ (hd[h].pc \in CountingPcs) => hd[h].skippedCount >= 0
        /\ Returned(h) =>
              /\ hd[h].result.success + hd[h].result.failed = hd[h].result.delta
              /\ hd[h].result.skipped >= 0
              /\ hd[h].result.success + hd[h].result.failed + hd[h].result.skipped
                    >= hd[h].result.delta

\* ------------------------------------------------------------------ C12
\* C12: an upload polls its operation at most maxAttempts = 60 times (while it
\* is in the poll loop fewer than 60 polls were made); the step that leaves the
\* poll loop with the operation not done counts that item as failed and no
\* other, writes no record, and goes on to the next item of the delta or, after
\* the last one, to the end of the run.
C12_PerItemTimeout ==
    [][\A h \in Handlers :
          /\ (hd'[h].pc = "poll") => hd'[h].attempts < maxAttempts
          /\ (hd[h].pc = "poll" /\ ~hd[h].opDone /\ hd'[h].pc # "poll") =>
                /\ hd[h].attempts = maxAttempts - 1
                /\ hd'[h].failedCount = hd[h].failedCount + 1
                /\ hd'[h].successCount = hd[h].successCount
                /\ syncedFiles' = syncedFiles
                /\ hd'[h].i = hd[h].i + 1
                /\ hd'[h].pc = IF hd[h].i < Len(hd[h].filesToSync)
                               THEN "loop" ELSE "completed"]_vars

\* a run returned in which the upload of the first document timed out and the
\* second document was uploaded after that
C12_Witness ==
    \E h \in Handlers :
        /\ Returned(h)
        /\ hd[h].failed = {1}
        /\ hd[h].result.failed = 1 /\ hd[h].result.success = 1
        /\ Recorded_Paths = {2}

\* The chunks are objects whose text, where there is one, is a string
WellTyped(chunks) ==
    \A k \in 1..Len(chunks) :
        chunks[k].shape = "object" /\ chunks[k].textKind # "other"

\* Every chunk is a retrieved context with a text that holds no link, and
\* without a file name
OnlyRawText(chunks) ==
    /\ chunks # <<>>
    /\ \A k \in 1..Len(chunks) :
          /\ chunks[k].shape = "object" /\ ~chunks[k].web /\ chunks[k].ctx
          /\ chunks[k].displayName = NoName /\ chunks[k].path = NoName
          /\ chunks[k].textKind = "string" /\ chunks[k].text # <<>>
          /\ Link \notin Range(chunks[k].text)

\* Some chunk is a retrieved context with a file name
HasFileName(chunks) ==
    \E k \in 1..Len(chunks) :
        /\ ~chunks[k].web /\ chunks[k].ctx
        /\ (chunks[k].displayName # NoName \/ chunks[k].path # NoName)

EntryKinds(citations) == {citations.sources[k][1] : k \in 1..Len(citations.sources)}

\* C13: for an answer whose chunks carry only raw text the citation list is one
\* of quoted previews; for an answer where at least one chunk carries a file
\* name the list has the file names and no preview, at whatever place of the
\* list of chunks the named chunk is.
C13_CitationFallback ==
    \A q \in Queries :
        (chat.hm[q].pc = "idle" /\ chat.hm[q].called = "rag"
            /\ chat.hm[q].gm.shape = "list" /\ WellTyped(chat.hm[q].gm.chunks)) =>
            /\ OnlyRawText(chat.hm[q].gm.chunks) =>
                  /\ chat.hm[q].citations.kind = "details"
                  /\ EntryKinds(chat.hm[q].citations) = {"preview"}
            /\ HasFileName(chat.hm[q].gm.chunks) =>
                  /\ chat.hm[q].citations.kind = "details"
                  /\ "file" \in EntryKinds(chat.hm[q].citations)
                  /\ "preview" \notin EntryKinds(chat.hm[q].citations)

\* a chunk of raw text came before the chunk with the file name, and the list
\* is of file names
C13_Witness ==
    \E q \in Queries :
        /\ chat.hm[q].pc = "idle" /\ chat.hm[q].botAnswer
        /\ chat.hm[q].gm.shape = "list" /\ Len(chat.hm[q].gm.chunks) = 2
        /\ OnlyRawText(<<chat.hm[q].gm.chunks[1]>>)
        /\ HasFileName(<<chat.hm[q].gm.chunks[2]>>)
        /\ chat.hm[q].citations.kind = "details"
        /\ EntryKinds(chat.hm[q].citations) = {"file"}

\* C14: formatCitations returns a string for grounding metadata of every shape:
\* it never throws.
C14_ExtractorNeverThrows ==
    \A q \in Queries : chat.hm[q].citations.kind # "throws"


\* The messages of the catch, in the order in which it looks for their
\* substrings, and the substrings of each
ErrorPriority ==
    <<"safety", "blocked", "rateLimit", "invalidRequest", "authentication", "server">>

MarkersOf(message) ==
    CASE message = "safety" -> {"SAFETY"}
      [] message = "blocked" -> {"blocked", "OTHER"}
      [] message = "rateLimit" -> {"429", "quota"}
      [] message = "invalidRequest" -> {"400"}
      [] message = "authentication" -> {"401", "403"}
      [] message = "server" -> {"500"}

Matching(error) ==
    {k \in 1..Len(ErrorPriority) : MarkersOf(ErrorPriority[k]) \cap error.marks # {}}

FirstMatch(error) ==
    IF ~error.isError \/ Matching(error) = {} THEN "generic"
    ELSE ErrorPriority[CHOOSE k \in Matching(error) : \A j \in Matching(error) : k <= j]

\* C15: a backend call that ends without a bot answer ends handleMessage with
\* exactly one error message, the first in the order content-safety, blocked,
\* rate limit, invalid request, authentication, server error whose substring
\* the caught error holds, else the generic one; no bot answer is added.
C15_ErrorClassification ==
    [][\A q \in Queries :
          (chat.hm[q].pc \in {"rag", "plain"} /\ chat'.hm[q].pc # chat.hm[q].pc
              /\ chat'.hm[q].outcome # "answered") =>
              /\ chat'.hm[q].pc = "idle"
              /\ chat'.hm[q].outcome = FirstMatch(chat'.hm[q].error)
              /\ ~chat'.hm[q].botAnswer]_vars

\* an error of the RAG backend that is both a content-safety and a rate-limit
\* error was shown as a content-safety error
C15_Witness ==
    \E q \in Queries :
        /\ chat.hm[q].pc = "idle" /\ ~chat.hm[q].botAnswer
        /\ chat.hm[q].called = "rag"
        /\ chat.hm[q].error.marks = {"SAFETY", "429"}
        /\ chat.hm[q].outcome = "safety"


\* C16: one handleMessage call makes at most one backend call; after a
\* rate-limit error the wait message is shown, the call is over and no second
\* backend call was made for it.
C16_NoSilentRetry ==
    [][\A q \in Queries :
          /\ chat'.hm[q].calls <= 1
          /\ (chat.hm[q].pc \in {"rag", "plain"} /\ chat'.hm[q].pc # chat.hm[q].pc
                 /\ chat'.hm[q].outcome = "rateLimit") =>
                /\ chat'.hm[q].pc = "idle"
                /\ chat'.hm[q].calls = 1]_vars

\* a call that was rate-limited by the plain backend is over after one call
C16_Witness ==
    \E q \in Queries :
        /\ chat.hm[q].pc = "idle" /\ chat.hm[q].outcome = "rateLimit"
        /\ chat.hm[q].called = "plain" /\ chat.hm[q].calls = 1
        /\ ~chat.hm[q].botAnswer


\* C17: once the caller of a running syncVault has asked it to stop, the run
\* starts no further item of its delta.
C17_CancelStopsRun ==
    [][\A h \in Handlers :
          (hd[h].cancel /\ hd[h].pc = "loop") => hd'[h].pc \notin UploadPcs]_vars


\* The saved settings hold exactly the records of the Sync State Store
PersistedIsSnapshot ==
    /\ \A d \in Docs :
          syncedFiles[d].present => <<d, syncedFiles[d]>> \in settings.ragSyncedFiles
    /\ \A entry \in settings.ragSyncedFiles :
          entry[1] \in Docs /\ syncedFiles[entry[1]] = entry[2]

\* a step that loads the plugin anew after a run that had completed
RestartAfterRun == lastRun.valid /\ ~lastRun.restarted /\ lastRun'.restarted

\* When a syncVaultWithProgress run has completed and saved, the saved records
\* are the snapshot of the Sync State Store, and a restart after it restores
\* the same records and the same handle.
DurableAcrossRestart ==
    /\ (\E h \in Handlers : hd[h].pc = "saveMetadata" /\ hd'[h].pc = "idle") =>
           PersistedIsSnapshot'
    /\ RestartAfterRun =>
          /\ syncedFiles' = syncedFiles
          /\ fileSearchStoreName' = fileSearchStoreName
          /\ PersistedIsSnapshot'

\* a run that has returned and was the first after a restart that followed a
\* completed run
ReturnedAfterRestart(h) ==
    Returned(h) /\ hd[h].result.prev.valid /\ hd[h].result.prev.restarted

\* C18 as the specification states it: the saved records equal the snapshot
\* after every completed run, a restart restores the same records and handle,
\* and a sync after the restart, with no document edited, selects no document.
C18_DurableSyncState ==
    [][/\ DurableAcrossRestart
       /\ \A h \in Handlers :
             ReturnedAfterRestart(h)' => hd'[h].result.delta = 0]_vars

\* What holds with one handler at a time (SpecRestart): the same, but the sync
\* after the restart selects exactly the documents whose upload failed in the
\* run before the restart (none if that run returned failed = 0).
C18_DurableSyncStateFailedRetried ==
    [][/\ DurableAcrossRestart
       /\ \A h \in Handlers :
             ReturnedAfterRestart(h)' =>
                /\ Range(hd'[h].filesToSync) = hd'[h].result.prev.failed
                /\ hd'[h].result.delta = Cardinality(hd'[h].result.prev.failed)]_vars

\* a run after a restart selected nothing, the run before the restart having
\* uploaded every document
C18_Witness ==
    \E h \in Handlers :
        /\ ReturnedAfterRestart(h) /\ hd[h].result.prev.failed = {}
        /\ hd[h].result.delta = 0 /\ hd[h].result.skipped = NumDocs
        /\ Recorded_Paths = Docs /\ PersistedIsSnapshot


\* handler h's initializeStore fails in this step
CreateFails(h) ==
    \/ hd[h].pc = "create" /\ hd'[h].pc = "syncError"
    \/ hd[h].pc = "lazyCreate" /\ hd'[h].pc \notin {"lazyCreate", "read"}

\* handler h's deleteStore fails in this step
DeleteFails(h) == hd[h].pc = "delete" /\ hd'[h].pc = "deleteError"

\* C19: a step in which the remote create fails leaves the handle null and the
\* handler with the error, about to return: it is not in uploadFile and does
\* not go on to another item (which would call initializeStore again); a step
\* in which the remote delete fails leaves the handle, the records and the
\* saved ragStoreName and ragSyncedFiles as they were.
C19_LifecycleFailures ==
    [][\A h \in Handlers :
          /\ CreateFails(h) =>
                /\ fileSearchStoreName' = fileSearchStoreName
                /\ syncedFiles' = syncedFiles /\ settings' = settings
                /\ remoteStores' = remoteStores
                /\ hd'[h].pc \notin UploadPcs \cup {"loop"}
          /\ DeleteFails(h) =>
                /\ fileSearchStoreName' = fileSearchStoreName
                /\ syncedFiles' = syncedFiles /\ settings' = settings
                /\ remoteStores' = remoteStores]_vars


\* handler h's uploadFile returns false in this step
UploadFails(h) == hd'[h].failedCount = hd[h].failedCount + 1

\* C20: a step in which uploadFile fails for a document adds and changes no
\* record of any document; a document that had a record of an earlier upload
\* keeps it, and with it still needs sync.
C20_FailedUploadKeepsRecords ==
    [][\A h \in Handlers :
          UploadFails(h) =>
              LET file == hd[h].filesToSync[hd[h].i]
              IN  /\ syncedFiles' = syncedFiles
                  /\ settings'.ragSyncedFiles = settings.ragSyncedFiles
                  /\ (vault[file] # Absent /\ hd[h].hash = calculateHash(vault[file])
                         /\ needsSync(syncedFiles[file], hd[h].hash)) =>
                        needsSync(syncedFiles'[file], calculateHash(vault'[file]))]_vars

\* a run has returned in which the upload of an edited document failed, and
\* the document still has the record of its earlier upload
C20_Witness ==
    \E h \in Handlers :
        /\ Returned(h) /\ hd[h].result.failed = hd[h].result.delta
        /\ \E d \in Range(hd[h].filesToSync) :
              /\ syncedFiles[d].present /\ vault[d] # Absent
              /\ syncedFiles[d].hash # calculateHash(vault[d])


\* handler h's uploadFile returns true in this step
UploadSucceeds(h) == hd'[h].successCount = hd[h].successCount + 1

\* C21: the step in which an upload succeeds writes for the document a record
\* with uploaded = true and the hash of the content that was sent to the
\* index, whatever the document holds by then; if the document holds another
\* text by then, the record makes it need sync.
C21_FingerprintOfUploadedContent ==
    [][\A h \in Handlers :
          UploadSucceeds(h) =>
              LET file == hd[h].filesToSync[hd[h].i]
              IN  /\ hd[h].content # Absent
                  /\ syncedFiles'[file] =
                        [present |-> TRUE, hash |-> calculateHash(hd[h].content),
                         uploaded |-> TRUE]
                  /\ (vault'[file] \notin {Absent, hd[h].content}) =>
                        needsSync(syncedFiles'[file], calculateHash(vault'[file]))]_vars

\* a run has returned in which every upload succeeded, and a document that was
\* edited during its upload holds another text than the one recorded
C21_Witness ==
    \E h \in Handlers :
        /\ Returned(h) /\ hd[h].result.failed = 0 /\ hd[h].result.success >= 1
        /\ \E d \in Range(hd[h].filesToSync) :
              /\ vault[d] # Absent /\ syncedFiles[d].uploaded
              /\ syncedFiles[d].hash # calculateHash(vault[d])
              /\ \E s \in 1..MaxStores : <<d, syncedFiles[d].hash>> \in remoteDocs[s]


\* Some chunk is a retrieved context whose text holds a [[link]]
HasLink(chunks) ==
    \E k \in 1..Len(chunks) :
        /\ ~chunks[k].web /\ chunks[k].ctx /\ chunks[k].textKind = "string"
        /\ Link \in Range(chunks[k].text)

\* the places of the entries of one kind in a list of sources
PlacesOf(kind, sources) == {k \in 1..Len(sources) : sources[k][1] = kind}

\* C22: in a list of sources made by formatCitations the file names are listed
\* if a file name was found, else the links if a link was found; links never
\* together with file names; hashtags only behind file names or links; previews
\* only when nothing else is listed.
C22_CitationPriority ==
    \A q \in Queries :
        (chat.hm[q].pc = "idle" /\ chat.hm[q].called = "rag"
            /\ chat.hm[q].gm.shape = "list" /\ chat.hm[q].citations.kind = "details") =>
            LET chunks == chat.hm[q].gm.chunks
                sources == chat.hm[q].citations.sources
                kinds == EntryKinds(chat.hm[q].citations)
            IN  /\ kinds \subseteq {"file", "link", "tag", "preview"}
                /\ HasFileName(chunks) <=> "file" \in kinds
                /\ (HasLink(chunks) /\ ~HasFileName(chunks)) <=> "link" \in kinds
                /\ "tag" \in kinds =>
                      /\ "file" \in kinds \/ "link" \in kinds
                      /\ \A t \in PlacesOf("tag", sources) :
                            \A k \in PlacesOf("file", sources) \cup PlacesOf("link", sources) :
                                k < t
                /\ "preview" \in kinds => kinds = {"preview"}

\* an answer whose chunk has a file name and a text with a link and a tag:
\* the file name and the tag are listed, the link is not
C22_Witness ==
    \E q \in Queries :
        /\ chat.hm[q].pc = "idle" /\ chat.hm[q].botAnswer
        /\ chat.hm[q].gm.shape = "list" /\ chat.hm[q].citations.kind = "details"
        /\ HasFileName(chat.hm[q].gm.chunks) /\ HasLink(chat.hm[q].gm.chunks)
        /\ EntryKinds(chat.hm[q].citations) = {"file", "tag"}


\* C23: in a sources block made by formatCitations no entry is listed twice,
\* and the number in its header is the number of file names, links or
\* previews listed below it.
C23_CountAndDedup ==
    \A q \in Queries :
        (chat.hm[q].pc = "idle" /\ chat.hm[q].called = "rag"
            /\ chat.hm[q].citations.kind = "details") =>
            LET sources == chat.hm[q].citations.sources
            IN  /\ \A j, k \in 1..Len(sources) : sources[j] = sources[k] => j = k
                /\ chat.hm[q].citations.n =
                      Cardinality(PlacesOf("file", sources) \cup PlacesOf("link", sources)
                                  \cup PlacesOf("preview", sources))


\* C24: the poll loop of an upload is bounded (fewer than maxAttempts polls
\* have been made whenever the handler waits for another one), and a syncVault
\* call that has started returns: its handler reaches the point after
\* syncVault with status = "completed", every item of the delta processed and
\* counted as a success or a failure.
C24_SyncTerminates ==
    /\ [](\A h \in Handlers : hd[h].pc = "poll" => hd[h].attempts < maxAttempts)
    /\ \A h \in Handlers :
          (hd[h].pc \in SyncVaultPcs) ~>
              /\ Returned(h)
              /\ syncProgress.status = "completed"
              /\ syncProgress.processed = syncProgress.total
              /\ hd[h].result.success + hd[h].result.failed = syncProgress.total

\* a run returned with status = "completed" in which no upload of the delta
\* succeeded
C24_Witness ==
    \E h \in Handlers :
        /\ Returned(h)
        /\ syncProgress.status = "completed"
        /\ syncProgress.total = NumDocs
        /\ hd[h].result.failed = NumDocs
        /\ hd[h].result.prev.valid


\* C25: a message sent less than API_COOLDOWN after lastApiCall was set is
\* rejected with "please wait" and reaches no backend, and no handleMessage
\* call starts a backend call less than API_COOLDOWN after the previous one.
C25_ApiCooldown ==
    [][\A q \in DOMAIN chat.hm :
          /\ (chat.hm[q].pc = "idle" /\ chat'.hm[q] # chat.hm[q]
                /\ chat.elapsed < API_COOLDOWN) =>
                (chat'.hm[q].pc = "idle" /\ chat'.hm[q].outcome = "cooldown"
                    /\ chat'.hm[q].calls = 0)
          /\ (chat.hm[q].pc = "adding" /\ chat'.hm[q].pc \in {"rag", "plain"}) =>
                chat.elapsed >= API_COOLDOWN]_vars


\* C26: whenever no handler is inside syncVault, syncProgress.status is "idle",
\* "completed" or "error".
C26_StatusNotLeftSyncing ==
    (\A h \in Handlers : hd[h].pc \notin SyncVaultPcs) =>
        syncProgress.status \in {"idle", "completed", "error"}


\* C27: in every reachable state with ragMode on, a click on the RAG button
\* (toggleRAGMode) leaves ragMode off.
C27_RagModeCanBeSwitchedOff ==
    chat.ragMode =>
        ~ragModeAfterToggle(chat.ragMode, settings.ragEnabled, ragService,
                            fileSearchStoreName)


\* C28: the remote store that is the active handle holds at most one uploaded
\* document per path, and for a path whose record says uploaded it is the one
\* whose fingerprint the record holds.
C28_OneVersionPerDocument ==
    (AllIdle /\ fileSearchStoreName # Null) =>
        \A d \in Docs :
            LET versions == {doc \in remoteDocs[fileSearchStoreName] : doc[1] = d}
            IN  /\ Cardinality(versions) <= 1
                /\ syncedFiles[d].uploaded => versions = {<<d, syncedFiles[d].hash>>}


\* C29: whenever there is a RAG service and no handler of the settings tab is
\* running (no sync, no creation and no deletion of a store), the store name
\* saved in the settings is the handle the service holds.
C29_PersistedHandleAgrees ==
    (AllIdle /\ ragService) => settings.ragStoreName = fileSearchStoreName


\* C30: getSyncStats returns total = the number of records, synced = the
\* number of records with uploaded = true and pending = total - synced; every
\* record has uploaded = true, so pending is 0.
C30_SyncStats ==
    LET stats == getSyncStats(syncedFiles)
    IN  /\ stats.total = Cardinality(Recorded_Paths)
        /\ stats.synced = Cardinality({d \in Recorded_Paths : syncedFiles[d].uploaded})
        /\ stats.pending = stats.total - stats.synced
        /\ \A d \in Recorded_Paths : syncedFiles[d].uploaded
        /\ stats.pending = 0

\* a run returned that recorded a document in a store created after the first
\* store was deleted: one record, counted as synced
C30_Witness ==
    \E h \in Handlers :
        /\ Returned(h)
        /\ 1 \notin remoteStores /\ fileSearchStoreName = 2
        /\ getSyncStats(syncedFiles).synced = 1
        /\ Cardinality(Recorded_Paths) = 1

====
